---- MODULE Spec2Model ----
(***************************************************************************)
(* A model of src/src/06-objects-tasks.js: the Builder class that          *)
(* accumulates a CSS selector, the cssSelectorBuilder facade, and the      *)
(* Rectangle constructor with its prototype method getArea.                *)
(*                                                                         *)
(* Text is a sequence of one-character strings, so that concatenation,     *)
(* prefixes and the punctuation each method adds are all visible.          *)
(***************************************************************************)
EXTENDS Integers, Sequences, FiniteSets, TLC

VARIABLES heap, hist, last, rects, getArea, area

vars == <<heap, hist, last, rects, getArea, area>>
builderVars == <<heap, hist, last>>
rectVars == <<rects, getArea, area>>

(* ------------------------------ bounds --------------------------------- *)

\* Spec: builders alive at once, and calls made on all of them together.
MaxBuilders == 3
MaxOps == 2
\* SpecChain: calls in the one chain.
MaxChain == 7
\* SpecRetry: calls made on the one builder, and how many of them may be
\* rejected or be a combine.
MaxCalls == 4
MaxRejected == 1
MaxCombines == 1
\* SpecRect: rectangles constructed, and the largest width or height.
MaxRects == 3
MaxDim == 2

(* ------------------------------ inputs --------------------------------- *)

Values == {<<"a">>, <<"b">>}
Combinators == {" ", "+"}
Dims == 0..MaxDim

(* --------------------------- class Builder ----------------------------- *)

\* JavaScript null and true, as the fields el and pseudo hold them.
Null == "null"
True == "true"
Truthy(x) == x # Null

\* The two messages the constructor stores; a throw carries one of them.
error ==
  "Element, id and pseudo-element should not occur more then one time inside the selector"
orderError ==
  "Selector parts should be arranged in the following order: element, id, class, attribute, pseudo-class, pseudo-element"
\* A call that returns instead of throwing.
Returned == "returned"

\* Mutant: the constructor starts the rank at 1.
Builder_orderOne == [result |-> <<>>, el |-> Null, pseudo |-> Null, order |-> 1]

\* constructor()
Builder == [result |-> <<>>, el |-> Null, pseudo |-> Null, order |-> 0]

\* A method's effect on its receiver: the receiver afterwards and what was
\* thrown, if anything.  A method that returns, returns `this`.
Throw(b, message) == [self |-> b, thrown |-> message]
ReturnThis(b) == [self |-> b, thrown |-> Returned]

\* Mutant: element tests for a duplicate before it tests the order.
Builder_element_duplicateFirst(b, value) ==
  IF Truthy(b.el) THEN Throw(b, error)
  ELSE IF b.order # 0 THEN Throw(b, orderError)
  ELSE ReturnThis([b EXCEPT !.el = True, !.result = @ \o value])

\* Mutant: element has no duplicate test.
Builder_element_noDuplicateTest(b, value) ==
  IF b.order # 0 THEN Throw(b, orderError)
  ELSE ReturnThis([b EXCEPT !.el = True, !.result = @ \o value])

Builder_element(b, value) ==
  IF b.order # 0 THEN Throw(b, orderError)
  ELSE IF Truthy(b.el) THEN Throw(b, error)
  ELSE ReturnThis([b EXCEPT !.el = True, !.result = @ \o value])

\* Mutant: the order test of id is off by one (> 2 for > 1).
Builder_id_lateOrderTest(b, value) ==
  IF b.order > 2 THEN Throw(b, orderError)
  ELSE IF b.order # 0 THEN Throw(b, error)
  ELSE ReturnThis([b EXCEPT !.order = 1, !.result = @ \o <<"#">> \o value])

\* Mutant: id tests for a duplicate before it tests the order.
Builder_id_duplicateFirst(b, value) ==
  IF b.order # 0 THEN Throw(b, error)
  ELSE ReturnThis([b EXCEPT !.order = 1, !.result = @ \o <<"#">> \o value])

Builder_id(b, value) ==
  IF b.order > 1 THEN Throw(b, orderError)
  ELSE IF b.order # 0 THEN Throw(b, error)
  ELSE ReturnThis([b EXCEPT !.order = 1, !.result = @ \o <<"#">> \o value])

\* Mutant: class does not record its rank.
Builder_class_rankUnset(b, value) ==
  IF b.order > 2 THEN Throw(b, orderError)
  ELSE ReturnThis([b EXCEPT !.result = @ \o <<".">> \o value])

\* Mutant: class assigns the text where it should add to it.
Builder_class_overwriting(b, value) ==
  IF b.order > 2 THEN Throw(b, orderError)
  ELSE ReturnThis([b EXCEPT !.order = 2, !.result = <<".">> \o value])

Builder_class(b, value) ==
  IF b.order > 2 THEN Throw(b, orderError)
  ELSE ReturnThis([b EXCEPT !.order = 2, !.result = @ \o <<".">> \o value])

\* Mutant: attr forgets the closing bracket.
Builder_attr_unclosed(b, value) ==
  IF b.order > 3 THEN Throw(b, orderError)
  ELSE ReturnThis([b EXCEPT !.order = 3, !.result = @ \o <<"[">> \o value])

\* Mutant: attr out of order returns without adding anything.
Builder_attr_ignoring(b, value) ==
  IF b.order > 3 THEN ReturnThis(b)
  ELSE ReturnThis([b EXCEPT !.order = 3,
                            !.result = @ \o <<"[">> \o value \o <<"]">>])

Builder_attr(b, value) ==
  IF b.order > 3 THEN Throw(b, orderError)
  ELSE ReturnThis([b EXCEPT !.order = 3,
                            !.result = @ \o <<"[">> \o value \o <<"]">>])

\* Mutant: pseudoClass writes the rank before its test, as pseudoElement
\* does.
Builder_pseudoClass_writeFirst(b, value) ==
  IF b.order > 4 THEN Throw([b EXCEPT !.order = 4], orderError)
  ELSE ReturnThis([b EXCEPT !.order = 4, !.result = @ \o <<":">> \o value])

\* Mutant: pseudoClass has no order test.
Builder_pseudoClass_untested(b, value) ==
  ReturnThis([b EXCEPT !.order = 4, !.result = @ \o <<":">> \o value])

Builder_pseudoClass(b, value) ==
  IF b.order > 4 THEN Throw(b, orderError)
  ELSE ReturnThis([b EXCEPT !.order = 4, !.result = @ \o <<":">> \o value])

\* Mutant: pseudoElement does not record its rank.
Builder_pseudoElement_rankUnset(b, value) ==
  IF Truthy(b.pseudo) THEN Throw(b, error)
  ELSE ReturnThis([b EXCEPT !.pseudo = True,
                            !.result = @ \o <<":", ":">> \o value])

\* The rank is written before the duplicate check, so a rejected call keeps
\* that write.
Builder_pseudoElement(b, value) ==
  LET b5 == [b EXCEPT !.order = 5]
  IN IF Truthy(b5.pseudo) THEN Throw(b5, error)
     ELSE ReturnThis([b5 EXCEPT !.pseudo = True,
                                !.result = @ \o <<":", ":">> \o value])

\* A read gives back the receiver as it leaves it and the value returned.
\* Mutant: stringify empties the accumulated text once it has read it.
Builder_stringify_clearing(b) ==
  [self |-> [b EXCEPT !.result = <<>>], value |-> b.result]

\* return this.result;
Builder_stringify(b) == [self |-> b, value |-> b.result]

\* Mutant: combine joins the two texts with the combinator alone.
Builder_combine_unspaced(b, text1, combinator, text2) ==
  ReturnThis([b EXCEPT !.result = text1 \o <<combinator>> \o text2])

\* Mutant: combine starts the receiver afresh, flags and rank included.
Builder_combine_resetting(b, text1, combinator, text2) ==
  ReturnThis([result |-> text1 \o <<" ">> \o <<combinator>> \o <<" ">> \o text2,
              el |-> Null, pseudo |-> Null, order |-> 0])

\* The template literal is evaluated, both stringify calls included, before
\* the assignment to this.result; text1 and text2 are what they returned.
Builder_combine(b, text1, combinator, text2) ==
  ReturnThis([b EXCEPT
    !.result = text1 \o <<" ">> \o <<combinator>> \o <<" ">> \o text2])

\* The six fragment methods by name.
Categories ==
  {"element", "id", "class", "attr", "pseudoClass", "pseudoElement"}

Apply(op, b, value) ==
  CASE op = "element" -> Builder_element(b, value)
    [] op = "id" -> Builder_id(b, value)
    [] op = "class" -> Builder_class(b, value)
    [] op = "attr" -> Builder_attr(b, value)
    [] op = "pseudoClass" -> Builder_pseudoClass(b, value)
    [] op = "pseudoElement" -> Builder_pseudoElement(b, value)

(* ----------------------------- the state -------------------------------- *)

\* heap: the Builder objects constructed so far, by identity (their index).
\* hist: for each of them, the mutator calls made on it, in order, each
\*       with its argument and whether it returned or what it threw.
\* last: the most recent call of the builder API and what it gave back.

NoCall ==
  [op |-> "none", via |-> "none", recv |-> 0, value |-> <<>>, left |-> 0,
   right |-> 0, thrown |-> Returned, ret |-> 0, text |-> <<>>]

Entry(op, value, thrown) == [op |-> op, value |-> value, thrown |-> thrown]

\* b.<op>(value), a fragment method called on the existing builder i.
Call(op, i, value) ==
  LET r == Apply(op, heap[i], value)
  IN /\ heap' = [heap EXCEPT ![i] = r.self]
     /\ hist' = [hist EXCEPT ![i] = Append(@, Entry(op, value, r.thrown))]
     /\ last' = [NoCall EXCEPT !.op = op, !.via = "method", !.recv = i,
                               !.value = value, !.thrown = r.thrown,
                               !.ret = IF r.thrown = Returned THEN i ELSE 0]
     /\ UNCHANGED rectVars

\* Mutant: the facade keeps one Builder and hands it out again.
Facade_singleton(op, value) ==
  LET fresh == heap = <<>>
      r == Apply(op, IF fresh THEN Builder ELSE heap[1], value)
  IN /\ heap' = IF fresh THEN <<r.self>> ELSE [heap EXCEPT ![1] = r.self]
     /\ hist' = IF fresh THEN <<(<<Entry(op, value, r.thrown)>>)>>
                ELSE [hist EXCEPT ![1] = Append(@, Entry(op, value, r.thrown))]
     /\ last' = [NoCall EXCEPT !.op = op, !.via = "facade", !.value = value,
                               !.recv = 1, !.thrown = r.thrown, !.ret = 1]
     /\ UNCHANGED rectVars

\* cssSelectorBuilder.<op>(value): a new Builder, the method called on it,
\* and the builder returned.  Were the method to throw, the facade would
\* return nothing and the new object would be unreachable.
Facade(op, value) ==
  LET r == Apply(op, Builder, value)
      i == Len(heap) + 1
  IN /\ IF r.thrown = Returned
        THEN /\ heap' = Append(heap, r.self)
             /\ hist' = Append(hist, <<Entry(op, value, r.thrown)>>)
        ELSE UNCHANGED <<heap, hist>>
     /\ last' = [NoCall EXCEPT !.op = op, !.via = "facade", !.value = value,
                               !.recv = IF r.thrown = Returned THEN i ELSE 0,
                               !.thrown = r.thrown,
                               !.ret = IF r.thrown = Returned THEN i ELSE 0]
     /\ UNCHANGED rectVars

\* new Builder()
New ==
  /\ heap' = Append(heap, Builder)
  /\ hist' = Append(hist, <<>>)
  /\ last' = [NoCall EXCEPT !.op = "new", !.via = "new",
                            !.recv = Len(heap) + 1, !.ret = Len(heap) + 1]
  /\ UNCHANGED rectVars

Call_element(i, value) == Call("element", i, value)
Call_id(i, value) == Call("id", i, value)
Call_class(i, value) == Call("class", i, value)
Call_attr(i, value) == Call("attr", i, value)
Call_pseudoClass(i, value) == Call("pseudoClass", i, value)
Call_pseudoElement(i, value) == Call("pseudoElement", i, value)

\* The two reads a combine makes, selector1.stringify() and then
\* selector2.stringify(), on the builders l and r: the heap after them and
\* the two texts read.
Reads(l, r) ==
  LET s1 == Builder_stringify(heap[l])
      h1 == [heap EXCEPT ![l] = s1.self]
      s2 == Builder_stringify(h1[r])
  IN [heap |-> [h1 EXCEPT ![r] = s2.self], text1 |-> s1.value,
      text2 |-> s2.value]

\* b.combine(selector1, combinator, selector2) on the existing builder i,
\* with the builders l and r as the two selectors (i itself allowed).
Call_combine(i, l, combinator, r) ==
  LET rd == Reads(l, r)
      c == Builder_combine(rd.heap[i], rd.text1, combinator, rd.text2)
  IN /\ heap' = [rd.heap EXCEPT ![i] = c.self]
     /\ hist' = [hist EXCEPT
                   ![i] = Append(@, Entry("combine", <<combinator>>, c.thrown))]
     /\ last' = [NoCall EXCEPT !.op = "combine", !.via = "method", !.recv = i,
                               !.value = <<combinator>>, !.left = l,
                               !.right = r, !.thrown = c.thrown, !.ret = i]
     /\ UNCHANGED rectVars

\* b.stringify()
Call_stringify(i) ==
  LET s == Builder_stringify(heap[i])
  IN /\ heap' = [heap EXCEPT ![i] = s.self]
     /\ last' = [NoCall EXCEPT !.op = "stringify", !.via = "method",
                               !.recv = i, !.text = s.value]
     /\ UNCHANGED hist
     /\ UNCHANGED rectVars

cssSelectorBuilder_element(value) == Facade("element", value)
cssSelectorBuilder_id(value) == Facade("id", value)
cssSelectorBuilder_class(value) == Facade("class", value)
cssSelectorBuilder_attr(value) == Facade("attr", value)
cssSelectorBuilder_pseudoClass(value) == Facade("pseudoClass", value)
cssSelectorBuilder_pseudoElement(value) == Facade("pseudoElement", value)

\* cssSelectorBuilder.combine(selector1, combinator, selector2)
cssSelectorBuilder_combine(l, combinator, r) ==
  LET rd == Reads(l, r)
      c == Builder_combine(Builder, rd.text1, combinator, rd.text2)
      i == Len(heap) + 1
  IN /\ heap' = Append(rd.heap, c.self)
     /\ hist' = Append(hist, <<Entry("combine", <<combinator>>, c.thrown)>>)
     /\ last' = [NoCall EXCEPT !.op = "combine", !.via = "facade", !.recv = i,
                               !.value = <<combinator>>, !.left = l,
                               !.right = r, !.thrown = c.thrown, !.ret = i]
     /\ UNCHANGED rectVars

(* ------------------------------ Rectangle ------------------------------ *)

\* rects:   the objects constructed by new Rectangle(x, y), by identity.
\* getArea: the value of Rectangle.prototype.getArea: undefined, or the
\*          function object `hello` made by construction number `scope`
\*          (the call whose x and y it could see).
\* area:    the most recent r.getArea() call: on which rectangle, through
\*          which function object, and the number it returned.

Undefined == [name |-> "undefined", scope |-> 0]
NoArea == [of |-> 0, scope |-> 0, value |-> 0]

\* Mutant: hello multiplies the x and y of the construction call that made
\* it, not the fields of the rectangle it is called on.
hello_closedOver(fn, this) == rects[fn.scope].width * rects[fn.scope].height

\* function hello() { return this.width * this.height; }
hello(fn, this) == this.width * this.height

\* new Rectangle(x, y)
Rectangle(x, y) ==
  /\ rects' = Append(rects, [width |-> x, height |-> y])
  /\ getArea' = [name |-> "hello", scope |-> Len(rects) + 1]
  /\ UNCHANGED area
  /\ UNCHANGED builderVars

\* rects[i].getArea(), found on the prototype
Call_getArea(i) ==
  /\ getArea # Undefined
  /\ area' = [of |-> i, scope |-> getArea.scope,
              value |-> hello(getArea, rects[i])]
  /\ UNCHANGED <<rects, getArea>>
  /\ UNCHANGED builderVars

(* --------------------------- specifications ---------------------------- *)

Init ==
  /\ heap = <<>>
  /\ hist = <<>>
  /\ last = NoCall
  /\ rects = <<>>
  /\ getArea = Undefined
  /\ area = NoArea

Sum(f, S) ==
  LET RECURSIVE Go(_)
      Go(T) == IF T = {} THEN 0
               ELSE LET x == CHOOSE y \in T : TRUE IN f[x] + Go(T \ {x})
  IN Go(S)

\* Mutator calls made so far, on all builders together.
Ops == Sum([i \in DOMAIN hist |-> Len(hist[i])], DOMAIN hist)
Rejected(i) ==
  Cardinality({k \in DOMAIN hist[i] : hist[i][k].thrown # Returned})
Combines(i) ==
  Cardinality({k \in DOMAIN hist[i] : hist[i][k].op = "combine"})

\* Several builders, any of them passed to any other's combine.
Next ==
  \/ Len(heap) < MaxBuilders /\ New
  \/ /\ Len(heap) < MaxBuilders
     /\ Ops < MaxOps
     /\ \E value \in Values :
          \/ cssSelectorBuilder_element(value)
          \/ cssSelectorBuilder_id(value)
          \/ cssSelectorBuilder_class(value)
          \/ cssSelectorBuilder_attr(value)
          \/ cssSelectorBuilder_pseudoClass(value)
          \/ cssSelectorBuilder_pseudoElement(value)
  \/ /\ Len(heap) < MaxBuilders
     /\ Ops < MaxOps
     /\ \E l \in DOMAIN heap, r \in DOMAIN heap, c \in Combinators :
          cssSelectorBuilder_combine(l, c, r)
  \/ /\ Ops < MaxOps
     /\ \E i \in DOMAIN heap, value \in Values :
          \/ Call_element(i, value)
          \/ Call_id(i, value)
          \/ Call_class(i, value)
          \/ Call_attr(i, value)
          \/ Call_pseudoClass(i, value)
          \/ Call_pseudoElement(i, value)
  \/ /\ Ops < MaxOps
     /\ \E i \in DOMAIN heap, l \in DOMAIN heap, r \in DOMAIN heap,
           c \in Combinators : Call_combine(i, l, c, r)

Spec == Init /\ [][Next]_vars

\* One builder and one fluent chain, new Builder().a(v).b(v)... or
\* cssSelectorBuilder.a(v).b(v)...: each call is made on what the call
\* before returned, so the chain ends at the first throw.
NextChain ==
  \/ heap = <<>> /\ New
  \/ /\ heap = <<>>
     /\ \E value \in Values :
          \/ cssSelectorBuilder_element(value)
          \/ cssSelectorBuilder_id(value)
          \/ cssSelectorBuilder_class(value)
          \/ cssSelectorBuilder_attr(value)
          \/ cssSelectorBuilder_pseudoClass(value)
          \/ cssSelectorBuilder_pseudoElement(value)
  \/ /\ heap # <<>>
     /\ Len(hist[1]) < MaxChain
     /\ Rejected(1) = 0
     /\ \E value \in Values :
          \/ Call_element(1, value)
          \/ Call_id(1, value)
          \/ Call_class(1, value)
          \/ Call_attr(1, value)
          \/ Call_pseudoClass(1, value)
          \/ Call_pseudoElement(1, value)
  \/ heap # <<>> /\ Call_stringify(1)

SpecChain == Init /\ [][NextChain]_vars

\* One builder whose caller catches what is thrown and goes on calling,
\* and also passes the builder to its own combine.
RetryCall(op, value) ==
  /\ Len(hist[1]) < MaxCalls
  /\ \/ Apply(op, heap[1], value).thrown = Returned
     \/ Rejected(1) < MaxRejected
  /\ Call(op, 1, value)

NextRetry ==
  \/ heap = <<>> /\ New
  \/ /\ heap = <<>>
     /\ \E value \in Values :
          \/ cssSelectorBuilder_element(value)
          \/ cssSelectorBuilder_id(value)
          \/ cssSelectorBuilder_class(value)
          \/ cssSelectorBuilder_attr(value)
          \/ cssSelectorBuilder_pseudoClass(value)
          \/ cssSelectorBuilder_pseudoElement(value)
  \/ /\ heap # <<>>
     /\ \E value \in Values :
          \/ RetryCall("element", value)
          \/ RetryCall("id", value)
          \/ RetryCall("class", value)
          \/ RetryCall("attr", value)
          \/ RetryCall("pseudoClass", value)
          \/ RetryCall("pseudoElement", value)
  \/ /\ heap # <<>>
     /\ Len(hist[1]) < MaxCalls
     /\ Combines(1) < MaxCombines
     /\ \E c \in Combinators : Call_combine(1, 1, c, 1)
  \/ heap # <<>> /\ Call_stringify(1)

SpecRetry == Init /\ [][NextRetry]_vars

\* Rectangles only.
NextRect ==
  \/ /\ Len(rects) < MaxRects
     /\ \E x \in Dims, y \in Dims : Rectangle(x, y)
  \/ \E i \in DOMAIN rects : Call_getArea(i)

SpecRect == Init /\ [][NextRect]_vars

(* ------------------------- words of the claims ------------------------- *)

\* The category rank of each fragment method.
Rank(op) ==
  CASE op = "element" -> 0
    [] op = "id" -> 1
    [] op = "class" -> 2
    [] op = "attr" -> 3
    [] op = "pseudoClass" -> 4
    [] op = "pseudoElement" -> 5

\* The syntax a fragment is to be rendered in.
Render(op, value) ==
  CASE op = "element" -> value
    [] op = "id" -> <<"#">> \o value
    [] op = "class" -> <<".">> \o value
    [] op = "attr" -> <<"[">> \o value \o <<"]">>
    [] op = "pseudoClass" -> <<":">> \o value
    [] op = "pseudoElement" -> <<":", ":">> \o value

Repeatable == {"class", "attr", "pseudoClass"}

\* The calls h are fragment calls whose categories follow
\* element?, id?, class*, attr*, pseudoClass*, pseudoElement?.
Grammar(h) ==
  /\ \A k \in DOMAIN h : h[k].op \in Categories
  /\ \A k \in 1..(Len(h) - 1) :
        \/ Rank(h[k].op) < Rank(h[k + 1].op)
        \/ h[k].op = h[k + 1].op /\ h[k].op \in Repeatable

\* The fragments of the calls h, rendered and concatenated in call order.
RECURSIVE Concatenated(_)
Concatenated(h) ==
  IF h = <<>> THEN <<>>
  ELSE Render(Head(h).op, Head(h).value) \o Concatenated(Tail(h))

Accepted(h) == SelectSeq(h, LAMBDA e : e.op \in Categories /\ e.thrown = Returned)
Ops_of(h) == [k \in DOMAIN h |-> h[k].op]

\* The highest rank among the fragments accepted in h, 0 if there is none.
RECURSIVE MaxRank(_)
MaxRank(h) ==
  IF h = <<>> THEN 0
  ELSE LET m == MaxRank(Tail(h))
           e == Head(h)
       IN IF e.op \in Categories /\ e.thrown = Returned /\ Rank(e.op) > m
          THEN Rank(e.op) ELSE m

\* The calls made on builder i before the most recent one.
Earlier(i) == SubSeq(hist[i], 1, Len(hist[i]) - 1)

\* The most recent call was a fragment method called on builder i.
LastIsCallOn(i) ==
  /\ last.via = "method"
  /\ last.op \in Categories
  /\ last.recv = i

\* This step is a call of a fragment method on the existing builder i.
FragmentCallOn(i) ==
  /\ Len(hist'[i]) = Len(hist[i]) + 1
  /\ last'.op \in Categories

(* ------------------------------- claims -------------------------------- *)

\* C1: a chain of fragment calls on a fresh builder whose categories follow
\* element?, id?, class*, attr*, pseudoClass*, pseudoElement? has no call
\* that throws, and stringify() returns the rendered fragments concatenated
\* in call order with nothing between them.
C1_GrammarChainsConcatenate ==
  \A i \in DOMAIN heap :
    Grammar(hist[i]) =>
      /\ \A k \in DOMAIN hist[i] : hist[i][k].thrown = Returned
      /\ Builder_stringify(heap[i]).value = Concatenated(hist[i])

C1_Witness ==
  /\ heap # <<>>
  /\ Ops_of(hist[1]) = <<"element", "id", "class", "class", "attr",
                         "pseudoClass", "pseudoElement">>
  /\ Builder_stringify(heap[1]).value =
       <<"a", "#", "b", ".", "a", ".", "b", "[", "a", "]", ":", "b",
         ":", ":", "a">>

\* C2 as stated: a second element, id or pseudo-element always throws the
\* duplicate message, whatever was appended in between.
C2_SecondOccurrenceIsDuplicate ==
  \A i \in DOMAIN heap :
    /\ LastIsCallOn(i)
    /\ last.op \in {"element", "id", "pseudoElement"}
    /\ \E k \in DOMAIN Earlier(i) :
         Earlier(i)[k].op = last.op /\ Earlier(i)[k].thrown = Returned
    => last.thrown = error

\* C2 amended: a second element, id or pseudo-element always throws; it
\* throws the order message when a fragment of a higher rank was accepted
\* before it, and the duplicate message otherwise.
C2_SecondOccurrenceThrows ==
  \A i \in DOMAIN heap :
    /\ LastIsCallOn(i)
    /\ last.op \in {"element", "id", "pseudoElement"}
    /\ \E k \in DOMAIN Earlier(i) :
         Earlier(i)[k].op = last.op /\ Earlier(i)[k].thrown = Returned
    => last.thrown =
         IF MaxRank(Earlier(i)) > Rank(last.op) THEN orderError ELSE error

C2_Witness ==
  /\ heap # <<>>
  /\ LastIsCallOn(1)
  /\ Ops_of(hist[1]) = <<"element", "class", "element">>
  /\ last.thrown = orderError

\* C3: a fragment method called when its category rank is below the
\* builder's order field throws the order message.
C3_LowerRankThrowsOrderError ==
  [][\A i \in DOMAIN heap :
       FragmentCallOn(i) /\ Rank(last'.op) < heap[i].order
         => last'.thrown = orderError]_vars

C3_Witness ==
  /\ heap # <<>>
  /\ LastIsCallOn(1)
  /\ Ops_of(hist[1]) = <<"class", "id">>
  /\ last.thrown = orderError

\* This step is a combine, by the method or by the facade.
CombineStep == last'.op = "combine" /\ hist' # hist

\* C4: a combine leaves the receiver's text equal to the text of left, a
\* space, the combinator, a space and the text of right, as they were when
\* the call was made.
C4_CombineText ==
  [][CombineStep =>
       heap'[last'.recv].result =
         heap[last'.left].result \o <<" ">> \o last'.value \o <<" ">>
           \o heap[last'.right].result]_vars

\* A combine, with ' ', whose left selector was itself made by combine.
C4_Witness ==
  /\ last.op = "combine"
  /\ last.value = <<" ">>
  /\ last.left # last.recv
  /\ hist[last.left] # <<>>
  /\ hist[last.left][1].op = "combine"
  /\ \E k \in 1..(Len(heap[last.recv].result) - 2) :
       /\ heap[last.recv].result[k] = " "
       /\ heap[last.recv].result[k + 1] = " "
       /\ heap[last.recv].result[k + 2] = " "

\* C5: a fragment call that throws leaves every field of every builder as
\* it was.
C5_RejectedCallChangesNothing ==
  [][hist' # hist /\ last'.thrown # Returned => heap' = heap]_vars

C5_Witness ==
  /\ heap # <<>>
  /\ LastIsCallOn(1)
  /\ last.op = "pseudoElement"
  /\ last.thrown = error

\* C6 as stated: a combine changes nothing of the builders passed as left
\* and right, the receiver included when it is one of them.
C6_CombineLeavesArguments ==
  [][CombineStep =>
       /\ heap'[last'.left] = heap[last'.left]
       /\ heap'[last'.right] = heap[last'.right]]_vars

\* C6 amended: a combine leaves the flags and the rank of left and right as
\* they were, and their text too unless the builder is the receiver.
C6_CombineLeavesOtherArguments ==
  [][CombineStep =>
       \A b \in {last'.left, last'.right} :
         /\ heap'[b].el = heap[b].el
         /\ heap'[b].pseudo = heap[b].pseudo
         /\ heap'[b].order = heap[b].order
         /\ b # last'.recv => heap'[b].result = heap[b].result]_vars

\* The receiver, with a rank of its own, passed as left to its own combine.
C6_Witness ==
  /\ last.op = "combine"
  /\ last.via = "method"
  /\ last.left = last.recv
  /\ heap[last.recv].order > 0
  /\ hist[last.recv][1].op \in Categories

\* C7: among the fragment calls a builder accepted there is at most one
\* element, at most one id and at most one pseudoElement.
C7_SingletonsAcceptedOnce ==
  \A i \in DOMAIN heap :
    \A op \in {"element", "id", "pseudoElement"} :
      Cardinality({k \in DOMAIN hist[i] :
                     hist[i][k].op = op /\ hist[i][k].thrown = Returned}) <= 1

\* A second element rejected, between a combine and an accepted id.
C7_Witness ==
  /\ heap # <<>>
  /\ Ops_of(hist[1]) = <<"element", "combine", "element", "id">>
  /\ hist[1][3].thrown = error
  /\ hist[1][4].thrown = Returned

\* C8: stringify returns the accumulated text, the empty text on a builder
\* nothing was called on; it changes no field, and called again with no
\* other call in between it returns the same text.
C8_StringifyIsPureRead ==
  /\ [](last.op = "stringify" =>
          /\ last.text = heap[last.recv].result
          /\ hist[last.recv] = <<>> => last.text = <<>>)
  /\ [][last'.op = "stringify" =>
          /\ heap' = heap
          /\ (last.op = "stringify" /\ last.recv = last'.recv)
               => last'.text = last.text]_vars

C8_Witness ==
  /\ last.op = "stringify"
  /\ last.text = <<"a", " ", "+", " ", "a">>
  /\ heap[last.recv].result = last.text

\* C9: a facade call returns a builder that did not exist before and
\* changes none that did; a call on one builder changes no other builder;
\* a mutator that returns, returns its receiver.
C9_BuildersShareNothing ==
  [][hist' # hist =>
       /\ \A j \in DOMAIN heap :
            j # last'.recv => heap'[j] = heap[j] /\ hist'[j] = hist[j]
       /\ last'.via \in {"facade", "new"} =>
            /\ Len(heap') = Len(heap) + 1
            /\ last'.ret = Len(heap')
            /\ \A j \in DOMAIN heap : heap'[j] = heap[j]
       /\ (last'.via = "method" /\ last'.thrown = Returned) =>
            /\ last'.ret = last'.recv
            /\ Len(heap') = Len(heap)]_vars

\* A method called on the second builder while the first holds a fragment.
C9_Witness ==
  /\ Len(heap) >= 2
  /\ last.via = "method"
  /\ last.op \in Categories
  /\ last.recv = 2
  /\ last.thrown = Returned
  /\ hist[1] # <<>>
  /\ hist[1][1].op \in Categories
  /\ heap[1] # heap[2]

\* C10: getArea() called on a rectangle returns the product of the width
\* and height it was constructed with, however many rectangles were
\* constructed before or after it.
C10_AreaIsWidthTimesHeight ==
  area.of # 0 =>
    area.value = rects[area.of].width * rects[area.of].height

\* getArea called on the first of three rectangles, through the function
\* object the third construction installed.
C10_Witness ==
  /\ Len(rects) = 3
  /\ area.of = 1
  /\ area.scope = 3
  /\ rects[1].width * rects[1].height # rects[3].width * rects[3].height
  /\ area.value = 2

\* C11: the order field is in 0..5 and is the highest rank among the
\* fragments the builder accepted (0 if none, or only an element), and it
\* never decreases.
C11_OrderIsHighestAcceptedRank ==
  /\ [](\A i \in DOMAIN heap :
          /\ heap[i].order \in 0..5
          /\ heap[i].order = MaxRank(hist[i]))
  /\ [][\A i \in DOMAIN heap : heap'[i].order >= heap[i].order]_vars

\* A rank reached past a rejected call and a combine.
C11_Witness ==
  /\ heap # <<>>
  /\ Ops_of(hist[1]) = <<"class", "id", "combine", "attr">>
  /\ hist[1][2].thrown = orderError
  /\ heap[1].order = 3

\* C12: element throws the order message exactly when order > 0, an element
\* present or not, and the duplicate message exactly when order = 0 and an
\* element is present; id throws the order message exactly when order > 1
\* and the duplicate message exactly when order = 1; class, attr and
\* pseudoClass never throw the duplicate message; pseudoElement never
\* throws the order message.
C12_ErrorKindPrecedence ==
  [][\A i \in DOMAIN heap :
       FragmentCallOn(i) =>
         LET b == heap[i]
             op == last'.op
             t == last'.thrown
         IN /\ op = "element" =>
                 /\ t = orderError <=> b.order > 0
                 /\ t = error <=> (b.order = 0 /\ Truthy(b.el))
            /\ op = "id" =>
                 /\ t = orderError <=> b.order > 1
                 /\ t = error <=> b.order = 1
            /\ op \in Repeatable => t # error
            /\ op = "pseudoElement" => t # orderError]_vars

\* A second element, after an id: the order message although an element
\* is present.
C12_Witness ==
  /\ heap # <<>>
  /\ LastIsCallOn(1)
  /\ Ops_of(hist[1]) = <<"element", "id", "element">>
  /\ Truthy(heap[1].el)
  /\ last.thrown = orderError

\* C13: the combine method never throws, returns its receiver and changes
\* nothing of the receiver but its text.
C13_CombineMethodKeepsRankAndFlags ==
  [][CombineStep /\ last'.via = "method" =>
       /\ last'.thrown = Returned
       /\ last'.ret = last'.recv
       /\ heap'[last'.recv] =
            [heap[last'.recv] EXCEPT !.result = heap'[last'.recv].result]]_vars

\* An id after a class and a combine: rejected for the rank recorded before
\* the combine.
C13_Witness ==
  /\ heap # <<>>
  /\ LastIsCallOn(1)
  /\ Ops_of(hist[1]) = <<"class", "combine", "id">>
  /\ last.thrown = orderError
  /\ heap[1].order = 2

\* C14: a fragment call that returns leaves the text it found, followed by
\* its own rendered fragment and nothing else.
C14_AcceptedCallAppendsItsFragment ==
  [][\A i \in DOMAIN heap :
       FragmentCallOn(i) /\ last'.thrown = Returned =>
         heap'[i].result =
           heap[i].result \o Render(last'.op, last'.value)]_vars

C14_Witness ==
  /\ heap # <<>>
  /\ Ops_of(hist[1]) = <<"id", "class", "class">>
  /\ heap[1].result = <<"#", "a", ".", "a", ".", "b">>

\* C15: after a pseudoElement call, accepted or rejected, the order field
\* of the builder it was made on is 5.
C15_OrderFiveAfterPseudoElement ==
  \A i \in DOMAIN heap :
    (last.op = "pseudoElement" /\ last.recv = i) => heap[i].order = 5

C15_Witness ==
  /\ heap # <<>>
  /\ Ops_of(hist[1]) = <<"pseudoElement", "pseudoElement">>
  /\ last.thrown = error
  /\ heap[1].order = 5

\* C16: a fragment call either returns its receiver with its fragment
\* appended, or throws the order message, or throws the duplicate message;
\* a combine returns.
C16_ThreeOutcomes ==
  [][/\ \A i \in DOMAIN heap :
          FragmentCallOn(i) =>
            \/ /\ last'.thrown = Returned
               /\ last'.ret = i
               /\ heap'[i].result =
                    heap[i].result \o Render(last'.op, last'.value)
            \/ last'.thrown = orderError /\ last'.ret = 0
            \/ last'.thrown = error /\ last'.ret = 0
     /\ CombineStep => last'.thrown = Returned]_vars

\* An accepted id and then a rejected one.
C16_Witness ==
  /\ heap # <<>>
  /\ LastIsCallOn(1)
  /\ Ops_of(hist[1]) = <<"id", "id">>
  /\ hist[1][1].thrown = Returned
  /\ last.thrown = error

\* C17: a builder whose pseudo flag is set has order 5, a builder that
\* accepted an id has order >= 1, and a rejected pseudoElement call leaves
\* the order as it was.
C17_PseudoFlagImpliesOrderFive ==
  /\ [](\A i \in DOMAIN heap :
          /\ Truthy(heap[i].pseudo) => heap[i].order = 5
          /\ (\E k \in DOMAIN hist[i] :
                hist[i][k].op = "id" /\ hist[i][k].thrown = Returned)
               => heap[i].order >= 1)
  /\ [][\A i \in DOMAIN heap :
          (FragmentCallOn(i) /\ last'.op = "pseudoElement"
             /\ last'.thrown # Returned)
            => heap'[i].order = heap[i].order]_vars

C17_Witness ==
  /\ heap # <<>>
  /\ Ops_of(hist[1]) = <<"id", "pseudoElement", "combine", "pseudoElement">>
  /\ hist[1][4].thrown = error
  /\ Truthy(heap[1].pseudo)

\* The builder accepted a pseudoElement among the calls h.
PseudoElementAccepted(h) ==
  \E k \in DOMAIN h : h[k].op = "pseudoElement" /\ h[k].thrown = Returned

\* C18: on a builder that accepted a pseudoElement every later fragment
\* call throws, pseudoElement the duplicate message and the other five the
\* order message, and only a combine changes the text.
C18_NothingAfterPseudoElement ==
  [][\A i \in DOMAIN heap :
       PseudoElementAccepted(hist[i]) =>
         /\ FragmentCallOn(i) =>
              last'.thrown =
                IF last'.op = "pseudoElement" THEN error ELSE orderError
         /\ heap'[i].result # heap[i].result =>
              last'.op = "combine" /\ last'.recv = i]_vars

C18_Witness ==
  /\ heap # <<>>
  /\ Ops_of(hist[1]) = <<"pseudoElement", "combine", "pseudoClass">>
  /\ hist[1][3].thrown = orderError
  /\ heap[1].result = <<":", ":", "a", " ", "+", " ", ":", ":", "a">>

\* C19: a facade creation call never throws, and the builder it returns
\* holds that one rendered fragment, the rank of its category, the element
\* flag for element only and the pseudo flag for pseudoElement only.
C19_FacadeCreationAccepted ==
  (last.via = "facade" /\ last.op \in Categories) =>
    /\ last.thrown = Returned
    /\ last.ret \in DOMAIN heap
    /\ heap[last.ret] =
         [result |-> Render(last.op, last.value),
          el |-> IF last.op = "element" THEN True ELSE Null,
          pseudo |-> IF last.op = "pseudoElement" THEN True ELSE Null,
          order |-> Rank(last.op)]

C19_Witness ==
  /\ last.via = "facade"
  /\ last.op = "pseudoElement"
  /\ last.ret = 2
  /\ heap[1].order = 2
  /\ heap[2].result = <<":", ":", "b">>

====
